---- MODULE Spec2Model ----
(***************************************************************************)
(* Model of pe-auto-grader: the colour classifier and workbook grader of   *)
(* grader.py (class ExcelGrader) and the Streamlit shell of app.py (main). *)
(*                                                                         *)
(* Conventions.                                                            *)
(*   - Python strings that the code slices or strips (colour codes, names) *)
(*     are sequences of one-character strings; texts the code only builds  *)
(*     and compares (sheet titles, formulas) are TLA+ strings.             *)
(*   - The Korean literals of the source are written in ASCII:             *)
(*     "green" / "yellow" / "red" for the three colour names of            *)
(*     OBJECTIVE_SCORES, "GradingResult" for base_name, "Objective" /      *)
(*     "Subjective" / "Total" for the three header labels.                 *)
(*   - Scores are counted in hundredths of a point (2.5 points = 250), so  *)
(*     that 1.25 is an integer.  Every score of the program is a multiple  *)
(*     of 1.25 below 128, all of which binary floating point adds exactly. *)
(*   - Python's None is the string "None" where the other values are       *)
(*     strings, and the record NoneV among cell values.                    *)
(***************************************************************************)
EXTENDS Integers, Sequences, FiniteSets, TLC

VARIABLES
    \* --- _identify_color applied to an integer triple
    r, g, b,        \* the channels handed to _identify_color
    color,          \* its result, "pending" before the call
    \* --- get_cell_color applied to one cell, and the two score lookups
    cell,           \* the cell's fill: [fill, start_color, type, rgb]
    cellColor,      \* get_cell_color(cell), "pending" before the call
    objScore,       \* OBJECTIVE_SCORES.get(cellColor, 0)
    subjScore,      \* SUBJECTIVE_SCORES.get(cellColor, 0)
    \* --- one ExcelGrader
    file,           \* the file at file_path: [valid, wb]
    workbook,       \* self.workbook, NoneWb before a load
    answer_sheet,   \* the title of self.answer_sheet, "None" when not set
    load_ok,        \* what load_workbook returned: "pending", "True", "False"
    df,             \* the last analyze_answer_sheet: [done, on_sheet, rows, rownos]
    gen,            \* generate_scored_excel: [calls, returned, raised, artifact]
    gen_first,      \* the artifact of the first call that returned one
    \* --- the loop of generate_scored_excel that names the new sheet
    existing,       \* new_wb.sheetnames when the loop is entered
    name_counter,   \* counter
    name_target,    \* target_sheet_name
    name_pc,        \* "idle", "loop" (at the while test), "created"
    \* --- the Streamlit shell (main of app.py)
    has_upload,             \* uploaded_file is not None
    clicked,                \* the button was pressed in this run
    st_error,               \* the error this run showed: "none", "load", "grading"
    session_results_df,     \* st.session_state.results_df: [set, rows]
    session_excel_data      \* st.session_state.excel_data, NoneWb for None

colorVars == <<r, g, b, color>>
cellVars == <<cell, cellColor, objScore, subjScore>>
graderVars == <<file, workbook, answer_sheet, load_ok, df, gen, gen_first>>
namesVars == <<existing, name_counter, name_target, name_pc>>
shellVars == <<has_upload, clicked, st_error, session_results_df, session_excel_data>>
vars == <<colorVars, cellVars, graderVars, namesVars, shellVars>>

----------------------------------------------------------------------------
(* Colour classifier                                                        *)

\* The three reference colours of _identify_color, in the order it tests them.
RefGreen == [r |-> 182, g |-> 215, b |-> 168]
RefYellow == [r |-> 255, g |-> 229, b |-> 153]
RefRed == [r |-> 234, g |-> 153, b |-> 153]

\* The tolerance the three distance tests compare with.
Tolerance == 30

\* color_distance squared.  The code compares the square root with 30; the
\* argument is an integer, and the correctly rounded square root of an integer
\* is below 30.0 exactly when the integer is below 900.
Dist2(r1, g1, b1, r2, g2, b2) ==
    (r1 - r2) * (r1 - r2) + (g1 - g2) * (g1 - g2) + (b1 - b2) * (b1 - b2)

\* The distance test with the square root forgotten: the squared distance is
\* compared with the tolerance itself.
NearNoRoot(r1, g1, b1, ref) ==
    Dist2(r1, g1, b1, ref.r, ref.g, ref.b) < Tolerance

Near(r1, g1, b1, ref) ==
    Dist2(r1, g1, b1, ref.r, ref.g, ref.b) < Tolerance * Tolerance

_identify_color(r1, g1, b1) ==
    IF Near(r1, g1, b1, RefGreen) THEN "green"
    ELSE IF Near(r1, g1, b1, RefYellow) THEN "yellow"
    ELSE IF Near(r1, g1, b1, RefRed) THEN "red"
    ELSE IF g1 > 200 /\ r1 < 180 THEN "green"
    ELSE IF r1 > 200 /\ g1 > 200 THEN "yellow"
    ELSE IF r1 > 200 /\ g1 < 180 THEN "red"
    ELSE "None"

----------------------------------------------------------------------------
(* get_cell_color: the fill's colour code parsed as Python parses it        *)

UpperDigits == <<"0", "1", "2", "3", "4", "5", "6", "7", "8", "9",
                 "A", "B", "C", "D", "E", "F">>
LowerDigits == <<"0", "1", "2", "3", "4", "5", "6", "7", "8", "9",
                 "a", "b", "c", "d", "e", "f">>

IsHexChar(c) == \E i \in 1..16 : UpperDigits[i] = c \/ LowerDigits[i] = c
HexVal(c) == (CHOOSE i \in 1..16 : UpperDigits[i] = c \/ LowerDigits[i] = c) - 1

\* str.isspace of one character, for the characters the model draws.
IsSpaceChar(c) == c = " "

ValueError == [err |-> TRUE, v |-> 0]
IntOk(n) == [err |-> FALSE, v |-> n]

\* int(s, 16) of a two-character string, which is all get_cell_color hands it
\* (the slices [0:2], [2:4], [4:6] of a string of at least six characters).
\* Python strips surrounding whitespace and accepts one sign before the
\* digits; a "0x" prefix or an underscore needs more digits than two
\* characters leave, so every other string raises ValueError.
PyInt16(s) ==
    LET c1 == s[1]
        c2 == s[2]
    IN  IF IsHexChar(c1) /\ IsHexChar(c2) THEN IntOk(16 * HexVal(c1) + HexVal(c2))
        ELSE IF IsSpaceChar(c1) /\ IsHexChar(c2) THEN IntOk(HexVal(c2))
        ELSE IF IsHexChar(c1) /\ IsSpaceChar(c2) THEN IntOk(HexVal(c1))
        ELSE IF c1 = "+" /\ IsHexChar(c2) THEN IntOk(HexVal(c2))
        ELSE IF c1 = "-" /\ IsHexChar(c2) THEN IntOk(0 - HexVal(c2))
        ELSE ValueError

\* rgb[2:] when the string has eight characters, rgb otherwise.
StripAlpha(rgb) == IF Len(rgb) = 8 THEN SubSeq(rgb, 3, 8) ELSE rgb

\* A cell's fill as get_cell_color reads it: whether cell.fill and
\* fill.start_color are present, the colour's type, and its rgb string (an
\* absent rgb is the empty string: `if rgb and ...` is all that reads it).
get_cell_color(c) ==
    IF ~c.fill \/ ~c.start_color THEN "None"
    ELSE IF c.type = "rgb" /\ Len(c.rgb) >= 6
    THEN LET rgb == StripAlpha(c.rgb)
             pr == PyInt16(SubSeq(rgb, 1, 2))
             pg == PyInt16(SubSeq(rgb, 3, 4))
             pb == PyInt16(SubSeq(rgb, 5, 6))
         IN  IF pr.err \/ pg.err \/ pb.err THEN "None"
             ELSE _identify_color(pr.v, pg.v, pb.v)
    ELSE "None"

RgbFill(code) == [fill |-> TRUE, start_color |-> TRUE, type |-> "rgb", rgb |-> code]

\* OBJECTIVE_SCORES.get(color, 0) and SUBJECTIVE_SCORES.get(color, 0), in
\* hundredths of a point.
ObjFull == 250
ObjPartial == 125
SubjFull == 500
SubjPartial == 250

SUBJECTIVE_SCORES(c) ==
    IF c = "green" THEN SubjFull ELSE IF c = "yellow" THEN SubjPartial ELSE 0

\* The objective table with the subjective weights pasted into it.
ObjectiveScoresPasted(c) == SUBJECTIVE_SCORES(c)

OBJECTIVE_SCORES(c) ==
    IF c = "green" THEN ObjFull ELSE IF c = "yellow" THEN ObjPartial ELSE 0

----------------------------------------------------------------------------
(* Cell values and worksheets                                               *)

\* A cell value: None, a string read from the file (characters), a text the
\* program builds (a header or a formula), or a number in hundredths.
NoneV == [t |-> "none", s |-> <<>>, x |-> "", n |-> 0]
Str(chars) == [t |-> "str", s |-> chars, x |-> "", n |-> 0]
Text(string) == [t |-> "text", s |-> <<>>, x |-> string, n |-> 0]
Num(hundredths) == [t |-> "num", s |-> <<>>, x |-> "", n |-> hundredths]

\* The fill of a cell nobody coloured: openpyxl's default PatternFill, whose
\* start_color is the rgb colour 00000000.
DefaultFill == RgbFill(<<"0", "0", "0", "0", "0", "0", "0", "0">>)

Max(x, y) == IF x >= y THEN x ELSE y

\* A worksheet: its title, max_row and max_column, the value and the fill of
\* every cell of that extent (a cell never written holds None and the default
\* fill), the number of table definitions, and the columns given width 6.
EmptySheet(title) ==
    [title |-> title, max_row |-> 1, max_column |-> 1,
     val |-> [i \in 1..1 |-> [j \in 1..1 |-> NoneV]],
     fill |-> [i \in 1..1 |-> [j \in 1..1 |-> DefaultFill]],
     tables |-> 0, narrow |-> {}]

\* sheet.cell(row, column): the cell is created when it does not exist, which
\* extends max_row and max_column.
Touch(sh, row, col) ==
    LET nr == Max(sh.max_row, row)
        nc == Max(sh.max_column, col)
        old(i, j) == i <= sh.max_row /\ j <= sh.max_column
    IN  IF row <= sh.max_row /\ col <= sh.max_column THEN sh
        ELSE
        [sh EXCEPT
           !.max_row = nr,
           !.max_column = nc,
           !.val = [i \in 1..nr |-> [j \in 1..nc |->
                      IF old(i, j) THEN sh.val[i][j] ELSE NoneV]],
           !.fill = [i \in 1..nr |-> [j \in 1..nc |->
                      IF old(i, j) THEN sh.fill[i][j] ELSE DefaultFill]]]

\* sheet.cell(row, column).value = v
SetValue(sh, row, col, v) == [Touch(sh, row, col) EXCEPT !.val[row][col] = v]

\* target_cell.fill = copy(source_cell.fill)
SetFill(sh, row, col, f) == [Touch(sh, row, col) EXCEPT !.fill[row][col] = f]

\* A workbook: its worksheets in order; NoneWb is Python's None.
NoneWb == [some |-> FALSE, sheets |-> <<>>]
Workbook(sheets) == [some |-> TRUE, sheets |-> sheets]

\* workbook.sheetnames
sheetnames(wb) == [i \in 1..Len(wb.sheets) |-> wb.sheets[i].title]

SheetNameSet(wb) == {wb.sheets[i].title : i \in 1..Len(wb.sheets)}

\* workbook[title]: the position of the sheet of that title.
SheetIndex(wb, title) == CHOOSE i \in 1..Len(wb.sheets) : wb.sheets[i].title = title

----------------------------------------------------------------------------
(* Column layout and the name test                                          *)

\* OBJECTIVE_COLS = range(4, 14), SUBJECTIVE_COLS = range(15, 30), 0-based.
ObjFirst == 4
ObjLast == 13
SubjFirst == 15
SubjLast == 29
OBJECTIVE_COLS == ObjFirst..ObjLast
SUBJECTIVE_COLS == SubjFirst..SubjLast
OBJECTIVE_SUM_COL == 14
SUBJECTIVE_SUM_COL == 30
TOTAL_SUM_COL == 31

\* The 1-based column of the name cell: row[2], cell(row, column=3).
NameColumn == 3

\* str.strip of a string of characters.
RECURSIVE LStrip(_)
LStrip(s) == IF s # <<>> /\ IsSpaceChar(Head(s)) THEN LStrip(Tail(s)) ELSE s

RECURSIVE RStrip(_)
RStrip(s) ==
    IF s # <<>> /\ IsSpaceChar(s[Len(s)]) THEN RStrip(SubSeq(s, 1, Len(s) - 1)) ELSE s

Strip(s) == RStrip(LStrip(s))

\* `not student_name or str(student_name).strip() == ''`: None, the empty
\* string and the number 0 are falsy; a string of whitespace strips to ''.
\* The texts the program builds hold no whitespace.
BlankName(v) ==
    \/ v.t = "none"
    \/ v.t = "str" /\ (v.s = <<>> \/ Strip(v.s) = <<>>)
    \/ v.t = "num" /\ v.n = 0
    \/ v.t = "text" /\ v.x = ""

----------------------------------------------------------------------------
(* analyze_answer_sheet                                                     *)

\* The objective loop over one row: the sum of OBJECTIVE_SCORES over the
\* cells of OBJECTIVE_COLS the row has (col_idx < len(row)), col_idx upward.
RECURSIVE ObjLoop(_, _, _, _)
ObjLoop(sh, row, col_idx, obj_score_sum) ==
    IF col_idx > ObjLast THEN obj_score_sum
    ELSE ObjLoop(sh, row, col_idx + 1,
                 IF col_idx < sh.max_column
                 THEN obj_score_sum
                        + OBJECTIVE_SCORES(get_cell_color(sh.fill[row][col_idx + 1]))
                 ELSE obj_score_sum)

RECURSIVE SubjLoop(_, _, _, _)
SubjLoop(sh, row, col_idx, subj_score_sum) ==
    IF col_idx > SubjLast THEN subj_score_sum
    ELSE SubjLoop(sh, row, col_idx + 1,
                  IF col_idx < sh.max_column
                  THEN subj_score_sum
                         + SUBJECTIVE_SCORES(get_cell_color(sh.fill[row][col_idx + 1]))
                  ELSE subj_score_sum)

\* `if len(row) <= 2: continue`, then the name test.
RowSkipped(sh, row) ==
    \/ sh.max_column <= 2
    \/ BlankName(sh.val[row][NameColumn])

\* The loop over iter_rows(min_row=2, max_row=max_row): results.append(...)
RECURSIVE AnalyzeRows(_, _, _)
AnalyzeRows(sh, row, results) ==
    IF row > sh.max_row THEN results
    ELSE IF RowSkipped(sh, row) THEN AnalyzeRows(sh, row + 1, results)
    ELSE LET obj_score_sum == ObjLoop(sh, row, ObjFirst, 0)
             subj_score_sum == SubjLoop(sh, row, SubjFirst, 0)
         IN  AnalyzeRows(sh, row + 1,
                 Append(results,
                        [row |-> row,
                         name |-> sh.val[row][NameColumn],
                         obj |-> obj_score_sum,
                         subj |-> subj_score_sum,
                         total |-> obj_score_sum + subj_score_sum]))

\* df.sort_values(row number): insertion of each record after the records of
\* a row number not above its own.
RECURSIVE InsertByRow(_, _)
InsertByRow(sorted, rec) ==
    IF sorted = <<>> THEN <<rec>>
    ELSE IF sorted[Len(sorted)].row <= rec.row THEN Append(sorted, rec)
    ELSE Append(InsertByRow(SubSeq(sorted, 1, Len(sorted) - 1), rec),
                sorted[Len(sorted)])

RECURSIVE SortByRow(_, _)
SortByRow(recs, sorted) ==
    IF recs = <<>> THEN sorted
    ELSE SortByRow(Tail(recs), InsertByRow(sorted, Head(recs)))

\* .drop(columns=[row number]).reset_index(drop=True)
DropRow(recs) ==
    [i \in 1..Len(recs) |->
        [name |-> recs[i].name, obj |-> recs[i].obj,
         subj |-> recs[i].subj, total |-> recs[i].total]]

\* The records of analyze_answer_sheet after sort_values, row numbers kept;
\* none when no answer sheet is set (its title is "None").
SortedRecords(wb, sheet_title) ==
    IF sheet_title = "None" THEN <<>>
    ELSE SortByRow(AnalyzeRows(wb.sheets[SheetIndex(wb, sheet_title)], 2, <<>>), <<>>)

\* The data frame analyze_answer_sheet returns.
analyze_answer_sheet(wb, sheet_title) == DropRow(SortedRecords(wb, sheet_title))

\* What a call leaves in the model: the data frame, and beside it the row
\* number of each of its entries (the column the code drops) and whether an
\* answer sheet was set when it was called.
Analysis(wb, sheet_title) ==
    LET recs == SortedRecords(wb, sheet_title)
    IN  [done |-> TRUE,
         on_sheet |-> sheet_title # "None",
         rows |-> DropRow(recs),
         rownos |-> [i \in 1..Len(recs) |-> recs[i].row]]

----------------------------------------------------------------------------
(* generate_scored_excel                                                    *)

Letters == <<"A", "B", "C", "D", "E", "F", "G", "H", "I", "J", "K", "L", "M",
             "N", "O", "P", "Q", "R", "S", "T", "U", "V", "W", "X", "Y", "Z">>

\* openpyxl.utils.get_column_letter: bijective base 26.
RECURSIVE get_column_letter(_)
get_column_letter(n) ==
    IF n <= 26 THEN Letters[n]
    ELSE get_column_letter((n - 1) \div 26) \o Letters[((n - 1) % 26) + 1]

base_name == "GradingResult"

\* The suffix formatted from the counter before its increment.
SuffixedNameStale(counter) == base_name \o "(" \o ToString(counter - 1) \o ")"

\* f"{base_name}({counter})"
SuffixedName(counter) == base_name \o "(" \o ToString(counter) \o ")"

\* The while loop that picks target_sheet_name.
RECURSIVE NameLoop(_, _, _)
NameLoop(names, counter, target_sheet_name) ==
    IF target_sheet_name \in names
    THEN NameLoop(names, counter + 1, SuffixedName(counter + 1))
    ELSE target_sheet_name

\* A save followed by a load, as openpyxl does them: every sheet comes back
\* with its cells, fills, tables and widths, and a cell holding the empty
\* string comes back empty (the writer emits no value for it).
RoundTrip(wb) ==
    [wb EXCEPT !.sheets = [k \in 1..Len(wb.sheets) |->
        [wb.sheets[k] EXCEPT !.val =
            [i \in 1..wb.sheets[k].max_row |-> [j \in 1..wb.sheets[k].max_column |->
                IF wb.sheets[k].val[i][j] = Str(<<>>) THEN NoneV
                ELSE wb.sheets[k].val[i][j]]]]]]

\* new_wb taken to be self.workbook itself, with no save and load between.
WorkingCopyShared(wb) == [wb |-> wb, shared |-> TRUE]

\* new_wb of generate_scored_excel: the workbook saved to a buffer and loaded
\* again, an object of its own (shared: whether writes to new_wb are writes
\* to self.workbook).
WorkingCopy(wb) == [wb |-> RoundTrip(wb), shared |-> FALSE]

\* ws.tables.clear() for every worksheet.
ClearTables(wb) ==
    [wb EXCEPT !.sheets = [k \in 1..Len(wb.sheets) |->
        [wb.sheets[k] EXCEPT !.tables = 0]]]

\* The three header labels of row 1.
WriteHeaders(sh) ==
    SetValue(SetValue(SetValue(sh,
        1, OBJECTIVE_SUM_COL + 1, Text("Objective")),
        1, SUBJECTIVE_SUM_COL + 1, Text("Subjective")),
        1, TOTAL_SUM_COL + 1, Text("Total"))

\* Step 1: target_cell.value = source_cell.value for every cell of the source
\* extent (values only).
CopyValues(source, target) ==
    LET grown == Touch(target, source.max_row, source.max_column)
    IN  [grown EXCEPT !.val =
            [i \in 1..grown.max_row |-> [j \in 1..grown.max_column |->
                IF i <= source.max_row /\ j <= source.max_column
                THEN source.val[i][j]
                ELSE grown.val[i][j]]]]

\* The formulas of one row.
ObjSumFormula(row_idx) ==
    "=SUM(" \o get_column_letter(ObjFirst + 1) \o ToString(row_idx) \o ":"
            \o get_column_letter(ObjLast + 1) \o ToString(row_idx) \o ")"
SubjSumFormula(row_idx) ==
    "=SUM(" \o get_column_letter(SubjFirst + 1) \o ToString(row_idx) \o ":"
            \o get_column_letter(SubjLast + 1) \o ToString(row_idx) \o ")"
TotalFormula(row_idx) ==
    "=" \o get_column_letter(OBJECTIVE_SUM_COL + 1) \o ToString(row_idx) \o "+"
        \o get_column_letter(SUBJECTIVE_SUM_COL + 1) \o ToString(row_idx)
RefFormula(target_sheet_name, col, row_idx) ==
    "='" \o target_sheet_name \o "'!" \o get_column_letter(col) \o ToString(row_idx)

\* The scoring loop without its `continue`.
GenRowSkippedNever(source, row_idx) == FALSE

\* The scoring loop with `not student_name` alone, the strip test left out.
GenRowSkippedNoStrip(source, row_idx) ==
    LET v == source.val[row_idx][NameColumn]
    IN  v.t = "none" \/ (v.t = "str" /\ v.s = <<>>) \/ (v.t = "num" /\ v.n = 0)

\* `if not student_name or str(student_name).strip() == '': continue`
GenRowSkipped(source, row_idx) == BlankName(source.val[row_idx][NameColumn])

\* The body of the scoring loop for one row, on the target sheet: the scores
\* and fills of the answer cells, then the three formulas.
ScoreTargetRow(source, target, row_idx) ==
    LET scored ==
          [target EXCEPT
             !.val[row_idx] = [c \in 1..target.max_column |->
                 IF (c - 1) \in OBJECTIVE_COLS
                 THEN Num(OBJECTIVE_SCORES(get_cell_color(source.fill[row_idx][c])))
                 ELSE IF (c - 1) \in SUBJECTIVE_COLS
                 THEN Num(SUBJECTIVE_SCORES(get_cell_color(source.fill[row_idx][c])))
                 ELSE target.val[row_idx][c]],
             !.fill[row_idx] = [c \in 1..target.max_column |->
                 IF (c - 1) \in OBJECTIVE_COLS \/ (c - 1) \in SUBJECTIVE_COLS
                 THEN source.fill[row_idx][c]
                 ELSE target.fill[row_idx][c]]]
    IN  SetValue(SetValue(SetValue(scored,
            row_idx, OBJECTIVE_SUM_COL + 1, Text(ObjSumFormula(row_idx))),
            row_idx, SUBJECTIVE_SUM_COL + 1, Text(SubjSumFormula(row_idx))),
            row_idx, TOTAL_SUM_COL + 1, Text(TotalFormula(row_idx)))

\* ... and on the source sheet: the three formulas that refer to the target.
ScoreSourceRow(source, target_sheet_name, row_idx) ==
    SetValue(SetValue(SetValue(source,
        row_idx, OBJECTIVE_SUM_COL + 1,
            Text(RefFormula(target_sheet_name, OBJECTIVE_SUM_COL + 1, row_idx))),
        row_idx, SUBJECTIVE_SUM_COL + 1,
            Text(RefFormula(target_sheet_name, SUBJECTIVE_SUM_COL + 1, row_idx))),
        row_idx, TOTAL_SUM_COL + 1,
            Text(RefFormula(target_sheet_name, TOTAL_SUM_COL + 1, row_idx)))

\* Step 2: the loop over range(2, max_r + 1). The pair of sheets after it.
RECURSIVE ScoreRows(_, _, _, _)
ScoreRows(source, target, row_idx, max_r) ==
    IF row_idx > max_r THEN [source |-> source, target |-> target]
    ELSE IF GenRowSkipped(source, row_idx)
    THEN ScoreRows(source, target, row_idx + 1, max_r)
    ELSE ScoreRows(ScoreSourceRow(source, target.title, row_idx),
                   ScoreTargetRow(source, target, row_idx),
                   row_idx + 1, max_r)

\* column_dimensions[get_column_letter(c)].width = 6 for c in range(5, max_c + 1)
NarrowColumns(target, max_c) == [target EXCEPT !.narrow = 5..max_c]

\* The places where generate_scored_excel can raise.
GenSteps == {"save_temp", "reload", "lookup", "create_sheet", "write", "save_output"}

\* What a call leaves: whether it raised, the BytesIO it returned (the
\* workbook saved into it; NoneWb when it raised) and self.workbook after it.
Raised(wb) == [raised |-> TRUE, artifact |-> NoneWb, workbook |-> wb]

\* generate_scored_excel on the grader's workbook and answer sheet; failAt is
\* the step that raises, "none" when none does. self.workbook.save raises
\* when no workbook is loaded, self.answer_sheet.title when no sheet is set.
generate_scored_excel(wb, sheet_title, failAt) ==
    IF ~wb.some \/ sheet_title = "None" \/ failAt \in GenSteps THEN Raised(wb)
    ELSE
    LET copy == WorkingCopy(wb)
        new_wb == ClearTables(copy.wb)
        src_idx == SheetIndex(new_wb, sheet_title)
        target_sheet_name == NameLoop(SheetNameSet(new_wb), 1, base_name)
        source_sheet == WriteHeaders(new_wb.sheets[src_idx])
        target_sheet == WriteHeaders(EmptySheet(target_sheet_name))
        max_r == source_sheet.max_row
        max_c == source_sheet.max_column
        copied == CopyValues(source_sheet, target_sheet)
        done == ScoreRows(source_sheet, copied, 2, max_r)
        final == Workbook(Append([new_wb.sheets EXCEPT ![src_idx] = done.source],
                                 NarrowColumns(done.target, max_c)))
    IN  [raised |-> FALSE,
         artifact |-> final,
         workbook |-> IF copy.shared THEN final ELSE wb]

----------------------------------------------------------------------------
(* Inputs of the classifier                                                 *)

\* Channel offsets around a reference colour run over -MaxOff..MaxOff: every
\* triple within the tolerance of a reference, and a shell around it.
MaxOff == 31

Offsets == (0 - MaxOff)..MaxOff
Channel == 0..255
Refs == {RefGreen, RefYellow, RefRed}

\* Two-character slices a colour code is built from: the channels of the
\* three references, the extremes, and strings that are no hex byte.
HexPairs == {<<"B", "6">>, <<"D", "7">>, <<"A", "8">>, <<"F", "F">>,
             <<"E", "5">>, <<"9", "9">>, <<"E", "A">>, <<"0", "0">>,
             <<"f", "f">>}
BadPairs == {<<"G", "G">>, <<"+", "0">>, <<" ", "F">>, <<"-", "F">>,
             <<"0", "x">>, <<"F", "_">>, <<" ", " ">>}
Pairs == HexPairs \cup BadPairs
AlphaPairs == {<<"F", "F">>, <<"0", "0">>, <<"G", "G">>}

\* Strings of fewer than six characters, and of seven.
ShortCodes == {<<>>, <<"F">>, <<"F", "F", "E">>, <<"B", "6", "D", "7", "A">>}

RgbCodes ==
    {p1 \o p2 \o p3 : p1 \in Pairs, p2 \in Pairs, p3 \in Pairs}
    \cup {a \o p1 \o p2 \o p3 :
            a \in AlphaPairs, p1 \in HexPairs, p2 \in HexPairs, p3 \in HexPairs}
    \cup {p1 \o p2 \o p3 \o <<x>> :
            p1 \in HexPairs, p2 \in HexPairs, p3 \in HexPairs, x \in {"0", "G"}}
    \cup ShortCodes

Cells ==
    {RgbFill(code) : code \in RgbCodes}
    \cup {[fill |-> f, start_color |-> s, type |-> t, rgb |-> code] :
            f \in BOOLEAN, s \in BOOLEAN, t \in {"rgb", "theme", "indexed"},
            code \in {<<>>, <<"F", "F", "B", "6", "D", "7", "A", "8">>}}

NoCell == [fill |-> FALSE, start_color |-> FALSE, type |-> "rgb", rgb |-> <<>>]

ColorIdle == r = 0 /\ g = 0 /\ b = 0 /\ color = "pending"
CellIdle == cell = NoCell /\ cellColor = "pending" /\ objScore = 0 /\ subjScore = 0

----------------------------------------------------------------------------
(* Input files of the grader                                                *)

\* At most MaxRows data rows below the header row.
MaxRows == 2

Code(c1, c2, c3, c4, c5, c6) == <<"F", "F", c1, c2, c3, c4, c5, c6>>
Green == RgbFill(Code("B", "6", "D", "7", "A", "8"))
Yellow == RgbFill(Code("F", "F", "E", "5", "9", "9"))
Red == RgbFill(Code("E", "A", "9", "9", "9", "9"))
\* (176, 208, 160), within the tolerance of the green reference.
DriftGreen == RgbFill(Code("B", "0", "D", "0", "A", "0"))
\* (255, 255, 0): no reference is near, the fallback rule says yellow.
PlainYellow == RgbFill(Code("F", "F", "F", "F", "0", "0"))
ThemeFill == [fill |-> TRUE, start_color |-> TRUE, type |-> "theme", rgb |-> <<>>]
BadCode == RgbFill(<<"F", "F", "G", "G", "9", "9">>)

\* The fill of the answer cell at 0-based column col_idx, per row pattern.
PatternFill(pattern, col_idx) ==
    CASE pattern = "full" -> Green
      [] pattern = "alt" ->
            IF col_idx <= ObjLast
            THEN (IF col_idx % 2 = 0 THEN Green ELSE Yellow)
            ELSE (IF col_idx % 3 = 0 THEN Green
                  ELSE IF col_idx % 3 = 1 THEN Yellow ELSE Red)
      [] pattern = "mixed" ->
            (CASE col_idx % 5 = 0 -> DriftGreen
               [] col_idx % 5 = 1 -> PlainYellow
               [] col_idx % 5 = 2 -> ThemeFill
               [] col_idx % 5 = 3 -> BadCode
               [] OTHER -> Red)
      [] OTHER -> DefaultFill

\* The rows a sheet is made of: the name cell, the pattern of the answer
\* fills, and what the three summary columns hold (when the sheet has them).
KimRow == [name |-> Str(<<"K", "i", "m">>), pattern |-> "full", summary |-> NoneV]
LeeRow == [name |-> Str(<<" ", "L", "e", "e">>), pattern |-> "alt", summary |-> Num(9900)]
NumberRow == [name |-> Num(700), pattern |-> "mixed", summary |-> NoneV]
NoNameRow == [name |-> NoneV, pattern |-> "full", summary |-> Num(9900)]
EmptyNameRow == [name |-> Str(<<>>), pattern |-> "alt", summary |-> NoneV]
SpacesRow == [name |-> Str(<<" ", " ">>), pattern |-> "mixed", summary |-> Str(<<"x">>)]
ZeroRow == [name |-> Num(0), pattern |-> "full", summary |-> NoneV]

RowKinds == {KimRow, LeeRow, NumberRow, NoNameRow, EmptyNameRow, SpacesRow, ZeroRow}

RowSeqs == UNION {[1..n -> RowKinds] : n \in 0..MaxRows}

IsAnswerCol(col) == (col - 1) \in OBJECTIVE_COLS \/ (col - 1) \in SUBJECTIVE_COLS
IsSummaryCol(col) ==
    col \in {OBJECTIVE_SUM_COL + 1, SUBJECTIVE_SUM_COL + 1, TOTAL_SUM_COL + 1}

AnswerSheet(title, ncols, tables, kinds) ==
    [title |-> title, max_row |-> 1 + Len(kinds), max_column |-> ncols,
     val |-> [i \in 1..(1 + Len(kinds)) |-> [j \in 1..ncols |->
        IF i = 1 THEN Str(<<"h">>)
        ELSE IF j = 1 THEN Num(100 * (i - 1))
        ELSE IF j = NameColumn THEN kinds[i - 1].name
        ELSE IF IsAnswerCol(j) THEN Str(<<"a">>)
        ELSE IF IsSummaryCol(j) THEN kinds[i - 1].summary
        ELSE NoneV]],
     fill |-> [i \in 1..(1 + Len(kinds)) |-> [j \in 1..ncols |->
        IF i >= 2 /\ IsAnswerCol(j) THEN PatternFill(kinds[i - 1].pattern, j - 1)
        ELSE DefaultFill]],
     tables |-> tables, narrow |-> {}]

\* A sheet beside the answer sheet: one cell, one table.
OtherSheet(title) == [EmptySheet(title) EXCEPT !.val[1][1] = Str(<<"z">>), !.tables = 1]

\* The workbooks around an answer sheet: its title, its width (no name
\* column; the objective cells and a part of the subjective ones; every answer
\* cell and the summary columns), its tables, and the titles of the sheets
\* after it.
PlainLayout == [title |-> "Sheet1", ncols |-> 32, tables |-> 0, others |-> <<>>]

Layouts ==
    {PlainLayout,
     [title |-> "Sheet1", ncols |-> 20, tables |-> 1, others |-> <<base_name>>],
     [title |-> "Sheet1", ncols |-> 32, tables |-> 0,
      others |-> <<SuffixedName(2), base_name>>],
     [title |-> base_name, ncols |-> 2, tables |-> 1, others |-> <<"Notes">>]}

InputWorkbook(layout, kinds) ==
    Workbook(<<AnswerSheet(layout.title, layout.ncols, layout.tables, kinds)>>
             \o [k \in 1..Len(layout.others) |-> OtherSheet(layout.others[k])])

\* A file that is no spreadsheet, a spreadsheet without any sheet, and the
\* spreadsheets with an answer sheet: every sequence of rows in the plain
\* layout, and no row or one row of every kind in each of the layouts.
InvalidFile == [valid |-> FALSE, wb |-> NoneWb]
ShortRowSeqs == {kinds \in RowSeqs : Len(kinds) <= 1}
Files ==
    {InvalidFile, [valid |-> TRUE, wb |-> Workbook(<<>>)]}
    \cup {[valid |-> TRUE, wb |-> InputWorkbook(PlainLayout, kinds)] :
            kinds \in RowSeqs}
    \cup {[valid |-> TRUE, wb |-> InputWorkbook(layout, kinds)] :
            layout \in Layouts, kinds \in ShortRowSeqs}

----------------------------------------------------------------------------
(* One ExcelGrader: __init__, then its three methods in any order           *)

\* generate_scored_excel is called at most MaxCalls times.
MaxCalls == 2

NoResult == [done |-> FALSE, on_sheet |-> FALSE, rows |-> <<>>, rownos |-> <<>>]
NoGen == [calls |-> 0, returned |-> 0, raised |-> FALSE, artifact |-> NoneWb]

NoSession == [set |-> FALSE, rows |-> <<>>]

NamesIdle ==
    existing = {} /\ name_counter = 1 /\ name_target = base_name /\ name_pc = "idle"

ShellIdle ==
    /\ has_upload = FALSE /\ clicked = FALSE /\ st_error = "none"
    /\ session_results_df = NoSession /\ session_excel_data = NoneWb

GraderIdle ==
    /\ file = InvalidFile
    /\ workbook = NoneWb /\ answer_sheet = "None" /\ load_ok = "pending"
    /\ df = NoResult /\ gen = NoGen /\ gen_first = NoneWb

\* load_workbook: openpyxl.load_workbook raises for a file that is no
\* spreadsheet, sheetnames[0] for a workbook without sheets; either is caught
\* and False returned, with whatever was assigned before.
load_workbook(wb, sheet, f) ==
    IF ~f.valid
    THEN [ok |-> FALSE, workbook |-> wb, answer_sheet |-> sheet]
    ELSE IF Len(f.wb.sheets) = 0
    THEN [ok |-> FALSE, workbook |-> f.wb, answer_sheet |-> sheet]
    ELSE [ok |-> TRUE, workbook |-> f.wb, answer_sheet |-> sheetnames(f.wb)[1]]

InitGrader ==
    /\ file \in Files
    /\ workbook = NoneWb /\ answer_sheet = "None" /\ load_ok = "pending"
    /\ df = NoResult /\ gen = NoGen /\ gen_first = NoneWb
    /\ ColorIdle /\ CellIdle /\ NamesIdle /\ ShellIdle

LoadWorkbook ==
    /\ load_ok = "pending"
    /\ LET res == load_workbook(workbook, answer_sheet, file)
       IN  /\ workbook' = res.workbook
           /\ answer_sheet' = res.answer_sheet
           /\ load_ok' = IF res.ok THEN "True" ELSE "False"
    /\ UNCHANGED <<file, df, gen, gen_first, colorVars, cellVars,
                   namesVars, shellVars>>

AnalyzeAnswerSheet ==
    /\ \E results_df \in {Analysis(workbook, answer_sheet)} : df' = results_df
    /\ UNCHANGED <<file, workbook, answer_sheet, load_ok, gen, gen_first,
                   colorVars, cellVars, namesVars, shellVars>>

GenerateScoredExcel(failAt) ==
    /\ gen.calls < MaxCalls
    /\ \E res \in {generate_scored_excel(workbook, answer_sheet, failAt)} :
           /\ gen' = [calls |-> gen.calls + 1,
                      returned |-> IF res.raised THEN gen.returned ELSE gen.returned + 1,
                      raised |-> res.raised,
                      artifact |-> res.artifact]
           /\ workbook' = res.workbook
           /\ gen_first' = IF gen_first = NoneWb THEN res.artifact ELSE gen_first
    /\ UNCHANGED <<file, answer_sheet, load_ok, df, colorVars, cellVars,
                   namesVars, shellVars>>

NextGrader ==
    \/ LoadWorkbook
    \/ AnalyzeAnswerSheet
    \/ \E failAt \in GenSteps \cup {"none"} : GenerateScoredExcel(failAt)

SpecGrader == InitGrader /\ [][NextGrader]_vars

----------------------------------------------------------------------------
(* The loop that names the new sheet, step by step                          *)

\* The sheet names of the workbook are drawn from base_name, base_name(1) to
\* base_name(MaxSuffix) and one other title.
MaxSuffix == 4

TitleUniverse == {"Sheet1", base_name} \cup {SuffixedName(k) : k \in 1..MaxSuffix}

\* target_sheet_name = base_name; counter = 1
InitNames ==
    /\ existing \in SUBSET TitleUniverse
    /\ name_counter = 1 /\ name_target = base_name /\ name_pc = "loop"
    /\ ColorIdle /\ CellIdle /\ GraderIdle /\ ShellIdle

\* One pass of the while body: the test holds.
NameLoopStep ==
    /\ name_pc = "loop"
    /\ name_target \in existing
    /\ name_counter' = name_counter + 1
    /\ name_target' = SuffixedName(name_counter + 1)
    /\ UNCHANGED <<existing, name_pc, colorVars, cellVars, graderVars, shellVars>>

\* The test fails: new_wb.create_sheet(name_target) appends the new sheet to
\* the sheets of titles `existing`.
CreateSheet ==
    /\ name_pc = "loop"
    /\ name_target \notin existing
    /\ name_pc' = "created"
    /\ UNCHANGED <<existing, name_counter, name_target, colorVars, cellVars,
                   graderVars, shellVars>>

NextNames == NameLoopStep \/ CreateSheet

\* The loop is straight-line code of one call: it is not suspended.
SpecNames == InitNames /\ [][NextNames]_vars /\ WF_vars(NextNames)

----------------------------------------------------------------------------
(* The shell: one run of main() per interaction                             *)

\* The files a user uploads: the two that do not load, and two answer sheets
\* in every layout.
ShellFiles ==
    {InvalidFile, [valid |-> TRUE, wb |-> Workbook(<<>>)]}
    \cup {[valid |-> TRUE, wb |-> InputWorkbook(layout, kinds)] :
            layout \in Layouts, kinds \in {<<KimRow>>, <<SpacesRow, LeeRow>>}}

\* The try block of main: analyze_answer_sheet, generate_scored_excel, then
\* the two assignments to the session state; an exception skips what follows
\* it and is shown by st.error.
\* The try block with the summary stored as soon as it is computed, before
\* generate_scored_excel is called.
TryGradeEager(wb, sheet_title, failAt, results_before, excel_before) ==
    LET results_df == Analysis(wb, sheet_title)
        res == generate_scored_excel(wb, sheet_title, failAt)
    IN  [df |-> results_df,
         gen |-> [calls |-> 1, returned |-> IF res.raised THEN 0 ELSE 1,
                  raised |-> res.raised, artifact |-> res.artifact],
         workbook |-> res.workbook,
         results_df |-> [set |-> TRUE, rows |-> results_df.rows],
         excel_data |-> IF res.raised THEN excel_before ELSE res.artifact,
         error |-> IF res.raised THEN "grading" ELSE "none"]

TryGrade(wb, sheet_title, failAt, results_before, excel_before) ==
    LET results_df == Analysis(wb, sheet_title)
        res == generate_scored_excel(wb, sheet_title, failAt)
    IN  IF res.raised
        THEN [df |-> results_df,
              gen |-> [calls |-> 1, returned |-> 0, raised |-> TRUE,
                       artifact |-> NoneWb],
              workbook |-> res.workbook,
              results_df |-> results_before, excel_data |-> excel_before,
              error |-> "grading"]
        ELSE [df |-> results_df,
              gen |-> [calls |-> 1, returned |-> 1, raised |-> FALSE,
                       artifact |-> res.artifact],
              workbook |-> res.workbook,
              results_df |-> [set |-> TRUE, rows |-> results_df.rows],
              excel_data |-> res.artifact,
              error |-> "none"]

Init ==
    /\ file = InvalidFile
    /\ workbook = NoneWb /\ answer_sheet = "None" /\ load_ok = "pending"
    /\ df = NoResult /\ gen = NoGen /\ gen_first = NoneWb
    /\ ShellIdle
    /\ ColorIdle /\ CellIdle /\ NamesIdle

\* A run with no file in the uploader: nothing is loaded or graded.
RunWithoutUpload ==
    /\ has_upload' = FALSE /\ clicked' = FALSE /\ st_error' = "none"
    /\ workbook' = NoneWb /\ answer_sheet' = "None" /\ load_ok' = "pending"
    /\ df' = NoResult /\ gen' = NoGen
    /\ UNCHANGED <<file, gen_first, session_results_df, session_excel_data,
                   colorVars, cellVars, namesVars>>

\* A run with file f in the uploader: a new ExcelGrader, load_workbook, and,
\* when it loaded and the button was pressed (press), the try block.
RunWithUpload(f, press, failAt) ==
    /\ has_upload' = TRUE
    /\ file' = f
    /\ \E ld \in {load_workbook(NoneWb, "None", f)} :
         /\ answer_sheet' = ld.answer_sheet
         /\ load_ok' = IF ld.ok THEN "True" ELSE "False"
         /\ clicked' = (ld.ok /\ press)
         /\ IF ld.ok /\ press
            THEN \E t \in {TryGrade(ld.workbook, ld.answer_sheet, failAt,
                                    session_results_df, session_excel_data)} :
                   /\ df' = t.df /\ gen' = t.gen /\ workbook' = t.workbook
                   /\ session_results_df' = t.results_df
                   /\ session_excel_data' = t.excel_data
                   /\ st_error' = t.error
            ELSE /\ df' = NoResult /\ gen' = NoGen /\ workbook' = ld.workbook
                 /\ UNCHANGED <<session_results_df, session_excel_data>>
                 /\ st_error' = IF ld.ok THEN "none" ELSE "load"
    /\ UNCHANGED <<gen_first, colorVars, cellVars, namesVars>>

Next ==
    \/ RunWithoutUpload
    \/ \E f \in ShellFiles, press \in BOOLEAN, failAt \in GenSteps \cup {"none"} :
          RunWithUpload(f, press, failAt)

Spec == Init /\ [][Next]_vars

----------------------------------------------------------------------------
(* _identify_color on the triples around the references                     *)

InitIdentify ==
    /\ \E ref \in Refs : \E dr \in Offsets, dg \in Offsets, db \in Offsets :
         /\ r = ref.r + dr /\ g = ref.g + dg /\ b = ref.b + db
         /\ r \in Channel /\ g \in Channel /\ b \in Channel
    /\ color = "pending"
    /\ CellIdle
    /\ GraderIdle /\ NamesIdle /\ ShellIdle

Identify ==
    /\ color = "pending"
    /\ color' = _identify_color(r, g, b)
    /\ UNCHANGED <<r, g, b, cellVars, graderVars, namesVars, shellVars>>

NextIdentify == Identify

SpecIdentify == InitIdentify /\ [][NextIdentify]_vars

----------------------------------------------------------------------------
(* get_cell_color and the score lookups on one cell                         *)

InitCell ==
    /\ cell \in Cells
    /\ cellColor = "pending" /\ objScore = 0 /\ subjScore = 0
    /\ ColorIdle
    /\ GraderIdle /\ NamesIdle /\ ShellIdle

\* The body of the two scoring loops for one cell (analyze_answer_sheet):
\* classify the cell, look its colour up in both tables.
ScoreCell ==
    /\ cellColor = "pending"
    /\ cellColor' = get_cell_color(cell)
    /\ objScore' = OBJECTIVE_SCORES(cellColor')
    /\ subjScore' = SUBJECTIVE_SCORES(cellColor')
    /\ UNCHANGED <<cell, colorVars, graderVars, namesVars, shellVars>>

NextCell == ScoreCell

SpecCell == InitCell /\ [][NextCell]_vars

----------------------------------------------------------------------------
(* Claims about the classifier                                              *)

GradeOf(ref) ==
    IF ref = RefGreen THEN "green" ELSE IF ref = RefYellow THEN "yellow" ELSE "red"

RefDist2(ref) == Dist2(r, g, b, ref.r, ref.g, ref.b)

Malformed(c) ==
    \/ ~c.fill
    \/ ~c.start_color
    \/ c.type # "rgb"
    \/ Len(c.rgb) < 6
    \/ \E i \in 1..Len(c.rgb) : ~IsHexChar(c.rgb[i])

\* C2: a cell whose fill colour is absent or malformed is classified Unknown
\* (None) and adds 0 to the objective and to the subjective sum.
C2_MalformedIsUnknown ==
    (cellColor # "pending" /\ Malformed(cell)) =>
        (cellColor = "None" /\ objScore = 0 /\ subjScore = 0)

----------------------------------------------------------------------------
(* Claims about the grader                                                  *)

Loaded == load_ok = "True"
Analysed == df.done /\ df.on_sheet
Returned == gen.returned >= 1 /\ ~gen.raised

\* The uploaded answer sheet, and the two sheets of the returned workbook.
InputSheet == file.wb.sheets[1]
OutOriginal == gen.artifact.sheets[SheetIndex(gen.artifact, InputSheet.title)]
OutTarget == gen.artifact.sheets[Len(gen.artifact.sheets)]

\* A name cell is blank: it is empty, or a string of nothing but spaces.
BlankCell(v) ==
    \/ v.t = "none"
    \/ v.t = "str" /\ \A i \in 1..Len(v.s) : v.s[i] = " "

\* Row r of the sheet has a non-blank name cell in column 3.
HasName(sh, row) == sh.max_column >= 3 /\ ~BlankCell(sh.val[row][3])

RECURSIVE NamedRowsFrom(_, _)
NamedRowsFrom(sh, row) ==
    IF row > sh.max_row THEN <<>>
    ELSE IF HasName(sh, row) THEN <<row>> \o NamedRowsFrom(sh, row + 1)
    ELSE NamedRowsFrom(sh, row + 1)

\* C3: the analysis has one entry per data row with a non-blank name cell,
\* in the order of the rows.
C3_OneEntryPerNamedRow ==
    (Loaded /\ Analysed) =>
        LET named == NamedRowsFrom(InputSheet, 2)
        IN  /\ Len(df.rows) = Len(named)
            /\ \A i \in 1..Len(named) : df.rows[i].name = InputSheet.val[named[i]][3]

\* The cells of the columns cols (0-based) of a row that are classified c.
CountColor(sh, row, cols, c) ==
    Cardinality({col_idx \in cols :
        col_idx < sh.max_column /\ get_cell_color(sh.fill[row][col_idx + 1]) = c})

\* C4: every reported row has objective total 2.5 x Full + 1.25 x Partial
\* over its objective cells, subjective total 5.0 x Full + 2.5 x Partial over
\* its subjective cells, and grand total their sum; all cells Full gives
\* 25.0 / 75.0 / 100.0, five Full and five Partial objective cells 18.75.
C4_Totals ==
    (Loaded /\ Analysed) =>
        \A i \in 1..Len(df.rows) :
            LET row == df.rownos[i]
                fo == CountColor(InputSheet, row, 4..13, "green")
                po == CountColor(InputSheet, row, 4..13, "yellow")
                fs == CountColor(InputSheet, row, 15..29, "green")
                ps == CountColor(InputSheet, row, 15..29, "yellow")
            IN  /\ df.rows[i].obj = 250 * fo + 125 * po
                /\ df.rows[i].subj = 500 * fs + 250 * ps
                /\ df.rows[i].total = df.rows[i].obj + df.rows[i].subj
                /\ (fo = 10 /\ fs = 15) =>
                      (df.rows[i].obj = 2500 /\ df.rows[i].subj = 7500
                       /\ df.rows[i].total = 10000)
                /\ (fo = 5 /\ po = 5) => df.rows[i].obj = 1875

\* An analysis that reports a row of 25.0 / 75.0 / 100.0 and a row whose
\* objective cells alternate Full and Partial.
C4_Witness ==
    /\ Loaded /\ Analysed
    /\ \E i \in 1..Len(df.rows) : df.rows[i].obj = 2500 /\ df.rows[i].total = 10000
    /\ \E i \in 1..Len(df.rows) :
          /\ df.rows[i].obj = 1875
          /\ CountColor(InputSheet, df.rownos[i], 4..13, "yellow") = 5

\* C5: generate_scored_excel leaves the loaded workbook as it was loaded, and
\* every call that returns returns the workbook the first such call returned
\* (the same cells, formulas and sheet titles).
C5_Repeatable ==
    Loaded =>
        /\ workbook = file.wb
        /\ Returned => gen.artifact = gen_first

\* A second call has returned, for a workbook with a table and a row scored.
C5_Witness ==
    /\ Loaded /\ gen.returned = 2 /\ ~gen.raised
    /\ InputSheet.tables = 1
    /\ \E row \in 2..InputSheet.max_row : HasName(InputSheet, row)

\* The data rows of the upload whose name cell is blank.
BlankRows == {row \in 2..InputSheet.max_row : ~HasName(InputSheet, row)}

\* What the uploaded row holds in a column (nothing beyond its width).
InputValue(row, col) ==
    IF col <= InputSheet.max_column THEN InputSheet.val[row][col] ELSE NoneV

SummaryCols == {15, 31, 32}

\* The grading-result sheet holds the answer values of the row, not scores.
Unscored(row) ==
    \A col \in 1..InputSheet.max_column :
        ((col - 1) \in 4..13 \/ (col - 1) \in 15..29) =>
            OutTarget.val[row][col] = InputSheet.val[row][col]

\* The three formulas a scored row gets on the grading-result sheet.
ExpectedObjFormula(row) == "=SUM(E" \o ToString(row) \o ":N" \o ToString(row) \o ")"
ExpectedSubjFormula(row) == "=SUM(P" \o ToString(row) \o ":AD" \o ToString(row) \o ")"
ExpectedTotalFormula(row) == "=O" \o ToString(row) \o "+AE" \o ToString(row)

HasSumFormulas(row) ==
    /\ OutTarget.val[row][15] = Text(ExpectedObjFormula(row))
    /\ OutTarget.val[row][31] = Text(ExpectedSubjFormula(row))
    /\ OutTarget.val[row][32] = Text(ExpectedTotalFormula(row))

\* The summary columns of the row hold, on both sheets, what the upload held.
NoFormulas(row) ==
    \A col \in SummaryCols :
        /\ OutTarget.val[row][col] = InputValue(row, col)
        /\ OutOriginal.val[row][col] = InputValue(row, col)

\* C6 as stated: a row with a blank name is carried into the output
\* unscored, gets the (zero-credit) sum formulas in its three summary
\* columns, and is absent from the summary table.
C6_BlankRowGetsFormulas ==
    (Loaded /\ Returned) =>
        \A row \in BlankRows :
            /\ Unscored(row)
            /\ HasSumFormulas(row)
            /\ Analysed => \A i \in 1..Len(df.rownos) : df.rownos[i] # row

\* C6 amended: a row with a blank name is carried into the output unscored,
\* gets no formula (its three summary columns hold on both sheets what the
\* uploaded row held), and is absent from the summary table.
C6_BlankRowGetsNoFormulas ==
    (Loaded /\ Returned) =>
        \A row \in BlankRows :
            /\ Unscored(row)
            /\ NoFormulas(row)
            /\ Analysed => \A i \in 1..Len(df.rownos) : df.rownos[i] # row

\* A returned workbook and an analysis of an upload with a blank-named row
\* that has coloured answer cells and a value in its summary columns.
C6_Witness ==
    /\ Loaded /\ Returned /\ Analysed
    /\ \E row \in BlankRows :
          /\ InputSheet.max_column = 32
          /\ InputSheet.val[row][15] = Num(9900)
          /\ get_cell_color(InputSheet.fill[row][5]) = "green"
          /\ OutTarget.val[row][15] = Num(9900)

RECURSIVE SumCells(_, _, _, _)
SumCells(sh, row, first, last) ==
    IF first > last THEN 0
    ELSE sh.val[row][first].n + SumCells(sh, row, first + 1, last)

\* The row was scored on the grading-result sheet: it has the sum formulas.
ScoredInOutput(row) == HasSumFormulas(row)

\* C10: a data row is scored by generate_scored_excel exactly when the
\* analysis has an entry for it, and then the scores written to E..N and to
\* P..AD of the grading-result sheet are numbers that add up to the entry's
\* objective and subjective totals, which the row's SUM formulas range over.
C10_AnalysisMatchesSheet ==
    (Loaded /\ Returned /\ Analysed) =>
        /\ \A row \in 2..InputSheet.max_row :
              ScoredInOutput(row) <=> (\E i \in 1..Len(df.rownos) : df.rownos[i] = row)
        /\ \A i \in 1..Len(df.rownos) :
              LET row == df.rownos[i]
              IN  /\ \A col \in (5..14) \cup (16..30) : OutTarget.val[row][col].t = "num"
                  /\ SumCells(OutTarget, row, 5, 14) = df.rows[i].obj
                  /\ SumCells(OutTarget, row, 16, 30) = df.rows[i].subj
                  /\ df.rows[i].total = df.rows[i].obj + df.rows[i].subj

\* An upload with a scored row of mixed colours and a skipped row, analysed
\* and regenerated.
C10_Witness ==
    /\ Loaded /\ Returned /\ Analysed
    /\ Len(df.rownos) >= 1 /\ Len(df.rownos) < InputSheet.max_row - 1
    /\ \E i \in 1..Len(df.rows) : df.rows[i].obj # 0 /\ df.rows[i].obj # 2500

----------------------------------------------------------------------------
(* Claims about the loop that names the new sheet                           *)

ExpectedName(k) == "GradingResult(" \o ToString(k) \o ")"

\* C7: the loop ends; it picks the base name when that is free, otherwise
\* base(k) for the smallest k >= 2 whose name is free - base(2) when only
\* the base name is taken - and never the title of an existing sheet.
C7_PicksFirstFreeName ==
    /\ <>(name_pc = "created")
    /\ [](name_pc = "created" =>
            /\ name_target \notin existing
            /\ "GradingResult" \notin existing => name_target = "GradingResult"
            /\ "GradingResult" \in existing =>
                  \E k \in 2..(Cardinality(existing) + 1) :
                      /\ name_target = ExpectedName(k)
                      /\ \A j \in 2..(k - 1) : ExpectedName(j) \in existing
            /\ ("GradingResult" \in existing /\ "GradingResult(2)" \notin existing)
                  => name_target = "GradingResult(2)")

\* The base name and base(2) are taken, base(1) is not: the sheet is base(3).
C7_Witness ==
    /\ name_pc = "created"
    /\ {"GradingResult", "GradingResult(2)"} \subseteq existing
    /\ "GradingResult(1)" \notin existing
    /\ name_target = "GradingResult(3)"

----------------------------------------------------------------------------
(* Claims about the shell                                                   *)

\* C8: when load_workbook returns False the failure is shown, the grader has
\* neither a workbook nor an answer sheet, and neither analyze_answer_sheet
\* nor generate_scored_excel is called for that upload.
C8_FailedLoadLeavesNothing ==
    (has_upload /\ load_ok = "False") =>
        /\ st_error = "load"
        /\ workbook = NoneWb /\ answer_sheet = "None"
        /\ ~df.done /\ gen.calls = 0

\* C9: a generate_scored_excel that fails raises and returns no artifact; the
\* run it fails in leaves the stored summary and artifact as they were; and
\* the session state changes only in a run whose grading succeeded, to the
\* summary and the complete artifact of that run, both or neither being set.
C9_FailedAttemptStoresNothing ==
    [][ /\ st_error' = "grading" =>
              /\ gen'.raised /\ gen'.artifact = NoneWb
              /\ session_results_df' = session_results_df
              /\ session_excel_data' = session_excel_data
        /\ (session_results_df' # session_results_df
              \/ session_excel_data' # session_excel_data) =>
              /\ st_error' = "none" /\ clicked' /\ ~gen'.raised
              /\ gen'.artifact.some
              /\ session_excel_data' = gen'.artifact
              /\ session_results_df' = [set |-> TRUE, rows |-> df'.rows]
        /\ session_results_df'.set <=> session_excel_data'.some ]_vars

\* A grading failed in a session that holds the results of an earlier one.
C9_Witness ==
    /\ st_error = "grading" /\ gen.raised
    /\ session_excel_data.some /\ session_results_df.set

====
